---------------------------- MODULE Spec2Model ----------------------------
(***************************************************************************)
(* Model of src/src/braille.rs: the Braille Canvas of drawille-rs.         *)
(*                                                                         *)
(* A Canvas is the triple (chars, width, height).  `chars` is a Vec<int>   *)
(* of cell masks, `width` and `height` are the cell dimensions computed by *)
(* `new`.  Every method is modelled as an operator from the Canvas (and    *)
(* the pixel coordinates) to an outcome record, and as an action that      *)
(* performs the call on the current Canvas.                                *)
(*                                                                         *)
(* The source is Rust of late 2014.  There, Vec::get_mut(index) returns    *)
(* &mut T and fails (panics) when index >= len, and so does the indexing   *)
(* expression chars[index]; neither grows the vector.  Integer division    *)
(* and remainder by zero fail as well.  A failed call leaves the Canvas as *)
(* it was (every failure happens before the first write) and ends the task *)
(* that owns the Canvas: no further call is made on it.                    *)
(*                                                                         *)
(* Three specifications:                                                   *)
(*   Spec       the public interface: a Canvas built by new(w, h), then    *)
(*              calls of clear/set/unset/toggle/get/fmt;                   *)
(*   SpecValue  the methods as functions of the Canvas value they receive: *)
(*              the Canvas is drawn from the values of the type (any       *)
(*              vector of masks), then the same calls;                     *)
(*   SpecFmt    fmt as a function of the Canvas value it receives.         *)
(***************************************************************************)
EXTENDS Integers, Sequences, FiniteSets, TLC

VARIABLES chars, width, height, last, pre, out, nops

vars == <<chars, width, height, last, pre, out, nops>>

(***************************************************************************)
(* Bounds of the model.                                                    *)
(***************************************************************************)
\* pixel widths and heights given to new() are 0..MaxW and 0..MaxH
MaxW == 4
MaxH == 4
\* pixel coordinates given to the pixel operations are 0..MaxX, 0..MaxY
MaxX == 2
MaxY == 4
\* calls made on one canvas
MaxOps == 2
\* longest mask vector drawn as an input of the pixel operations
MaxCells == 2
\* longest mask vector drawn as an input of fmt
MaxLen == 3

\* masks the drawn vectors are made of
ValueMasks == {0, 255}
FmtMasks == {0, 1, 2, 3, 10, 255}

XS == 0..MaxX
YS == 0..MaxY

(***************************************************************************)
(* Bitwise operators of `int`, on the non-negative masks of the model.     *)
(* Coordinates and dimensions are far below the width of uint: the index   *)
(* arithmetic never wraps here.                                            *)
(***************************************************************************)
RECURSIVE BitAnd(_, _)
BitAnd(a, b) ==
    IF a = 0 \/ b = 0 THEN 0
    ELSE (a % 2) * (b % 2) + 2 * BitAnd(a \div 2, b \div 2)

RECURSIVE BitOr(_, _)
BitOr(a, b) ==
    IF a = 0 THEN b
    ELSE IF b = 0 THEN a
    ELSE (IF a % 2 = 1 \/ b % 2 = 1 THEN 1 ELSE 0)
         + 2 * BitOr(a \div 2, b \div 2)

RECURSIVE BitXor(_, _)
BitXor(a, b) ==
    IF a = 0 THEN b
    ELSE IF b = 0 THEN a
    ELSE (IF a % 2 # b % 2 THEN 1 ELSE 0)
         + 2 * BitXor(a \div 2, b \div 2)

(***************************************************************************)
(* static PIXEL_MAP: [[int, ..2], ..4], indexed [y % 4][x % 2].            *)
(***************************************************************************)
PIXEL_MAP == << <<1, 8>>, <<2, 16>>, <<4, 32>>, <<64, 128>> >>

\* PIXEL_MAP[y % 4][x % 2]
dot_index(x, y) == PIXEL_MAP[(y % 4) + 1][(x % 2) + 1]

\* let (row, col) = (x / 2, y / 4); let index = row*self.width + col;
index(c, x, y) == (x \div 2) * c.width + (y \div 4)

\* The Canvas as a value.
Canvas(cs, w, h) == [chars |-> cs, width |-> w, height |-> h]

\* Outcome of a call: how it ended, the canvas it leaves, what it returned.
Outcome(st, c, r) == [status |-> st, canvas |-> c, ret |-> r]

\* the vector with element i (counted from 0) replaced
Store(cs, i, v) == [cs EXCEPT ![i + 1] = v]

(***************************************************************************)
(* Canvas::new                                                             *)
(***************************************************************************)
new(w, h) == Canvas(<< >>, w \div 2, h \div 4)

\* clear as a call that forgets to empty the vector
clear_keep(c) == Outcome("ok", c, "unit")

(***************************************************************************)
(* Canvas::clear                                                           *)
(***************************************************************************)
clear(c) == Outcome("ok", Canvas(<< >>, c.width, c.height), "unit")

\* set with the column wrapped into the row: col = (y / 4) % self.width
set_wrapcol(c, x, y) ==
    IF c.width = 0 THEN Outcome("divide_by_zero", c, "none")
    ELSE LET i == (x \div 2) * c.width + ((y \div 4) % c.width) IN
         IF i >= Len(c.chars)
         THEN Outcome("index_out_of_bounds", c, "none")
         ELSE Outcome("ok",
                      Canvas(Store(c.chars, i, BitOr(c.chars[i + 1], dot_index(x, y))),
                             c.width, c.height),
                      "unit")

\* set that takes the dot from column 0 of PIXEL_MAP whatever x is
set_col0(c, x, y) ==
    LET i == index(c, x, y) IN
    IF i >= Len(c.chars)
    THEN Outcome("index_out_of_bounds", c, "none")
    ELSE Outcome("ok",
                 Canvas(Store(c.chars, i, BitOr(c.chars[i + 1], dot_index(0, y))),
                        c.width, c.height),
                 "unit")

(***************************************************************************)
(* Canvas::set: *self.chars.get_mut(index) |= PIXEL_MAP[y % 4][x % 2]      *)
(***************************************************************************)
set(c, x, y) ==
    LET i == index(c, x, y) IN
    IF i >= Len(c.chars)
    THEN Outcome("index_out_of_bounds", c, "none")
    ELSE Outcome("ok",
                 Canvas(Store(c.chars, i, BitOr(c.chars[i + 1], dot_index(x, y))),
                        c.width, c.height),
                 "unit")

(***************************************************************************)
(* Canvas::unset: *self.chars.get_mut(index) &= PIXEL_MAP[y % 4][x % 2]    *)
(***************************************************************************)
unset(c, x, y) ==
    LET i == index(c, x, y) IN
    IF i >= Len(c.chars)
    THEN Outcome("index_out_of_bounds", c, "none")
    ELSE Outcome("ok",
                 Canvas(Store(c.chars, i, BitAnd(c.chars[i + 1], dot_index(x, y))),
                        c.width, c.height),
                 "unit")

\* toggle written with |= in place of ^=
toggle_or(c, x, y) ==
    LET i == index(c, x, y) IN
    IF i >= Len(c.chars)
    THEN Outcome("index_out_of_bounds", c, "none")
    ELSE Outcome("ok",
                 Canvas(Store(c.chars, i, BitOr(c.chars[i + 1], dot_index(x, y))),
                        c.width, c.height),
                 "unit")

(***************************************************************************)
(* Canvas::toggle: *self.chars.get_mut(index) ^= PIXEL_MAP[y % 4][x % 2]   *)
(***************************************************************************)
toggle(c, x, y) ==
    LET i == index(c, x, y) IN
    IF i >= Len(c.chars)
    THEN Outcome("index_out_of_bounds", c, "none")
    ELSE Outcome("ok",
                 Canvas(Store(c.chars, i, BitXor(c.chars[i + 1], dot_index(x, y))),
                        c.width, c.height),
                 "unit")

\* get that reads a cell that is not allocated as an empty cell
get_or_false(c, x, y) ==
    LET i == index(c, x, y) IN
    IF i >= Len(c.chars)
    THEN Outcome("ok", c, "false")
    ELSE Outcome("ok", c,
                 IF BitAnd(c.chars[i + 1], dot_index(x, y)) # 0
                 THEN "true" ELSE "false")

(***************************************************************************)
(* Canvas::get: let c = self.chars[index]; return c & dot_index != 0       *)
(***************************************************************************)
get(c, x, y) ==
    LET i == index(c, x, y) IN
    IF i >= Len(c.chars)
    THEN Outcome("index_out_of_bounds", c, "none")
    ELSE Outcome("ok", c,
                 IF BitAnd(c.chars[i + 1], dot_index(x, y)) # 0
                 THEN "true" ELSE "false")

(***************************************************************************)
(* impl Show for Canvas.  The output is the sequence of the strings the    *)
(* write! calls hand to the formatter, in order; the formatter is taken to *)
(* accept every write.  i % self.width fails when width is 0, at the first *)
(* cell and before anything is written.                                    *)
(***************************************************************************)
Digit(d) == <<"0", "1", "2", "3", "4", "5", "6", "7", "8", "9">>[d + 1]

\* "{}" of an int: its decimal digits, a minus sign first when negative
RECURSIVE Decimal(_)
Decimal(n) ==
    IF n < 0 THEN "-" \o Decimal(0 - n)
    ELSE IF n < 10 THEN Digit(n)
    ELSE Decimal(n \div 10) \o Digit(n % 10)

\* the loop body for the cells from position i (counted from 0) on, with
\* `written` the writes made so far
RECURSIVE fmt_from(_, _, _)
fmt_from(c, i, written) ==
    IF i >= Len(c.chars) THEN Outcome("ok", c, written)
    ELSE IF c.width = 0 THEN Outcome("divide_by_zero", c, written)
    ELSE fmt_from(c, i + 1,
                  (IF i % c.width = 0 THEN Append(written, "\n") ELSE written)
                      \o << Decimal(c.chars[i + 1]) >>)

\* fmt that ends each full row with the line break instead of starting it
RECURSIVE fmt_break_after_from(_, _, _)
fmt_break_after_from(c, i, written) ==
    IF i >= Len(c.chars) THEN Outcome("ok", c, written)
    ELSE IF c.width = 0 THEN Outcome("divide_by_zero", c, written)
    ELSE fmt_break_after_from(c, i + 1,
             IF (i + 1) % c.width = 0
             THEN written \o << Decimal(c.chars[i + 1]), "\n" >>
             ELSE Append(written, Decimal(c.chars[i + 1])))

fmt_break_after(c) == fmt_break_after_from(c, 0, << >>)

fmt(c) == fmt_from(c, 0, << >>)

(***************************************************************************)
(* The state machine.                                                      *)
(*   chars, width, height   the Canvas                                     *)
(*   last                   the last call and how it ended                 *)
(*   pre                    the Canvas as it was before the last call      *)
(*   out                    what the last fmt call wrote                   *)
(*   nops                   calls made so far                              *)
(***************************************************************************)
self == Canvas(chars, width, height)

Call(op, x, y, o) == [op |-> op, x |-> x, y |-> y, status |-> o.status, ret |-> o.ret]

\* how the canvas came to be: "new" by Canvas::new, "value" drawn as an input
NoCall(how) == [op |-> how, x |-> 0, y |-> 0, status |-> "ok", ret |-> "unit"]

Start(c, how) ==
    /\ chars = c.chars
    /\ width = c.width
    /\ height = c.height
    /\ last = NoCall(how)
    /\ pre = c
    /\ out = << >>
    /\ nops = 0

\* sequences over S of length at most n
SeqsUpTo(S, n) == UNION {[1..k -> S] : k \in 0..n}

Init == \E w \in 0..MaxW, h \in 0..MaxH : Start(new(w, h), "new")

\* height is read by no method: one value of it is drawn here
InitValue ==
    \E cs \in SeqsUpTo(ValueMasks, MaxCells), w \in 0..MaxW :
        Start(Canvas(cs, w \div 2, MaxH \div 4), "value")

InitFmt ==
    \E cs \in SeqsUpTo(FmtMasks, MaxLen), w \in 0..MaxW, h \in 0..MaxH :
        Start(Canvas(cs, w \div 2, h \div 4), "value")

\* the effect of a call that ended as o
Apply(op, x, y, o) ==
    /\ last.status = "ok"
    /\ nops < MaxOps
    /\ nops' = nops + 1
    /\ pre' = self
    /\ chars' = o.canvas.chars
    /\ width' = o.canvas.width
    /\ height' = o.canvas.height
    /\ last' = Call(op, x, y, o)
    /\ out' = out

Clear == Apply("clear", 0, 0, clear(self))

Set == \E x \in XS, y \in YS : Apply("set", x, y, set(self, x, y))

Unset == \E x \in XS, y \in YS : Apply("unset", x, y, unset(self, x, y))

Toggle == \E x \in XS, y \in YS : Apply("toggle", x, y, toggle(self, x, y))

Get == \E x \in XS, y \in YS : Apply("get", x, y, get(self, x, y))

Fmt ==
    LET o == fmt(self) IN
    /\ last.status = "ok"
    /\ nops < MaxOps
    /\ nops' = nops + 1
    /\ pre' = self
    /\ UNCHANGED <<chars, width, height>>
    /\ last' = [op |-> "fmt", x |-> 0, y |-> 0, status |-> o.status, ret |-> "unit"]
    /\ out' = o.ret

Next == Clear \/ Set \/ Unset \/ Toggle \/ Get \/ Fmt

Spec == Init /\ [][Next]_vars

SpecValue == InitValue /\ [][Next]_vars

SpecFmt == InitFmt /\ [][Fmt]_vars

(***************************************************************************)
(* What the properties below are stated with.  The flat index and the dot  *)
(* of a pixel are written out here as the documentation of the canvas      *)
(* gives them, not taken from the operators above.                         *)
(***************************************************************************)
PixelOps == {"set", "unset", "toggle", "get"}

Pixels == XS \X YS

FlatIndex(w, x, y) == (x \div 2) * w + (y \div 4)

DotOf(x, y) ==
    IF x % 2 = 0 THEN <<1, 2, 4, 64>>[(y % 4) + 1]
    ELSE <<8, 16, 32, 128>>[(y % 4) + 1]

\* whether mask m has the single dot b
HasBit(m, b) == (m \div b) % 2 = 1

\* the cell and the dot the last call addressed
lastIndex == FlatIndex(pre.width, last.x, last.y)
lastDot == DotOf(last.x, last.y)

\* whether the cell the last call addressed was allocated before it
lastAllocated == lastIndex < Len(pre.chars)

\* what get(x, y) answers on the canvas c ("none" when it fails)
Read(c, x, y) == get(c, x, y).ret

(***************************************************************************)
(* C1: after set(x, y), whatever the cell held and whether or not it was   *)
(* allocated, the call has succeeded and get(x, y) returns true.           *)
(***************************************************************************)
C1_SetThenGetTrue ==
    last.op = "set" =>
        /\ last.status = "ok"
        /\ Read(self, last.x, last.y) = "true"

(***************************************************************************)
(* C2: set(x, y) whose flat index is at or beyond the length of the mask   *)
(* vector succeeds and extends the vector to index + 1 cells, the new      *)
(* cells 0 except the addressed one, which holds exactly the dot of (x, y).*)
(***************************************************************************)
C2_SetGrowsVector ==
    (last.op = "set" /\ ~lastAllocated) =>
        /\ last.status = "ok"
        /\ Len(chars) = lastIndex + 1
        /\ \A j \in 1..Len(pre.chars) : chars[j] = pre.chars[j]
        /\ \A j \in (Len(pre.chars) + 1)..lastIndex : chars[j] = 0
        /\ chars[lastIndex + 1] = lastDot

C4_OneToggleFlipsOneDot ==
    (last.op = "toggle" /\ last.status = "ok") =>
        /\ lastAllocated
        /\ Len(chars) = Len(pre.chars)
        /\ width = pre.width /\ height = pre.height
        /\ \A j \in 1..Len(chars) :
              chars[j] = IF j # lastIndex + 1 THEN pre.chars[j]
                         ELSE IF HasBit(pre.chars[j], lastDot)
                              THEN pre.chars[j] - lastDot
                              ELSE pre.chars[j] + lastDot

\* the step is a toggle(x, y) made right after a successful toggle(x, y)
C4_SecondToggle ==
    /\ last.op = "toggle" /\ last.status = "ok"
    /\ nops' = nops + 1
    /\ last'.op = "toggle" /\ last'.x = last.x /\ last'.y = last.y

\* the step leaves the canvas as it was before the first of the two
C4_Restored ==
    /\ last'.status = "ok"
    /\ chars' = pre.chars /\ width' = pre.width /\ height' = pre.height
    /\ Read(Canvas(chars', width', height'), last.x, last.y)
           = Read(pre, last.x, last.y)

C4_ToggleTwice ==
    /\ []C4_OneToggleFlipsOneDot
    /\ [][C4_SecondToggle => C4_Restored]_vars

\* Reached only by two toggle(0, 0) in a row on a first cell of 255: the
\* drawn masks are 0 and 255, and 254 comes from 255 by that toggle alone.
C4_Witness ==
    /\ nops = 2
    /\ last.op = "toggle" /\ last.status = "ok" /\ last.x = 0 /\ last.y = 0
    /\ Len(chars) >= 1
    /\ pre.chars[1] = 254 /\ chars[1] = 255

(***************************************************************************)
(* C5: get(x, y) whose flat index is at or beyond the length of the mask   *)
(* vector ends in the out-of-range failure, returns neither true nor       *)
(* false, and leaves the canvas as it was.                                 *)
(***************************************************************************)
C5_GetOutOfRangeFails ==
    (last.op = "get" /\ ~lastAllocated) =>
        /\ last.status = "index_out_of_bounds"
        /\ last.ret \notin {"true", "false"}
        /\ self = pre

\* a get on a canvas as new() made it, never written
C5_Witness ==
    /\ last.op = "get" /\ nops = 1
    /\ pre.chars = << >>
    /\ last.status = "index_out_of_bounds"

(***************************************************************************)
(* C6: clear() empties the mask vector and keeps width and height; no      *)
(* get on the cleared canvas returns true.                                 *)
(***************************************************************************)
C6_ClearEmpties ==
    /\ last.op = "clear" =>
          /\ last.status = "ok"
          /\ chars = << >>
          /\ width = pre.width /\ height = pre.height
          /\ \A p \in Pixels : Read(self, p[1], p[2]) # "true"
    /\ (last.op = "get" /\ pre.chars = << >>) => last.ret # "true"

\* a clear of a canvas on which some pixel read true
C6_Witness ==
    /\ last.op = "clear"
    /\ pre.chars # << >>
    /\ pre.height > 0
    /\ \E p \in Pixels : Read(pre, p[1], p[2]) = "true"

(***************************************************************************)
(* C7: fmt on a canvas of width >= 1 writes, for the cells in index order, *)
(* a line break before cell i exactly when i is a multiple of width, then  *)
(* the decimal text of the cell's mask, and nothing else.  Cell i (from 0) *)
(* is therefore the write number i + i / width + 2, the break of a row's   *)
(* first cell the write just before it, and there are                      *)
(* len + ceil(len / width) writes in all.                                  *)
(***************************************************************************)
C7_FmtBreaksBeforeRows ==
    /\ (last.op = "fmt" /\ width >= 1) =>
          /\ last.status = "ok"
          /\ Len(out) = Len(chars) + (Len(chars) + width - 1) \div width
          /\ \A i \in 0..(Len(chars) - 1) :
                /\ out[i + (i \div width) + 2] = ToString(chars[i + 1])
                /\ (i % width = 0) => out[i + (i \div width) + 1] = "\n"
    /\ (last.op = "fmt" /\ width = 2 /\ chars = <<1, 2, 3>>) =>
          out = <<"\n", "1", "2", "\n", "3">>

C7_Witness ==
    /\ last.op = "fmt" /\ last.status = "ok"
    /\ width = 2 /\ chars = <<1, 2, 3>>
    /\ out = <<"\n", "1", "2", "\n", "3">>

(***************************************************************************)
(* C8: set(x, y) stores the pixel in the cell at the flat index            *)
(* (x div 2) * width + (y div 4) under the dot PIXEL_MAP[y mod 4][x mod 2];*)
(* on new(4, 4), set(0, 0) leaves cell 0 = 0x01, set(1, 0) after it leaves *)
(* cell 0 = 0x09, and then get(0,0), get(1,0) are true and get(0,1) false. *)
(***************************************************************************)
C8_SetStoresThePixel ==
    /\ last.op = "set" =>
          /\ last.status = "ok"
          /\ Len(chars) > lastIndex
          /\ HasBit(chars[lastIndex + 1], lastDot)
    /\ (last.op = "set" /\ width = 2 /\ height = 1 /\ pre.chars = << >>
            /\ last.x = 0 /\ last.y = 0) =>
          chars = <<1>>
    /\ (last.op = "set" /\ width = 2 /\ height = 1 /\ pre.chars = <<1>>
            /\ last.x = 1 /\ last.y = 0) =>
          /\ chars = <<9>>
          /\ Read(self, 0, 0) = "true"
          /\ Read(self, 1, 0) = "true"
          /\ Read(self, 0, 1) = "false"

C10_SetChangesOnePixel ==
    (last.op = "set" /\ last.status = "ok") =>
        /\ Len(chars) = Len(pre.chars)
        /\ width = pre.width /\ height = pre.height
        /\ \A j \in 1..Len(chars) : j # lastIndex + 1 => chars[j] = pre.chars[j]
        /\ width >= 1 =>
              \A p \in Pixels :
                  (/\ p # <<last.x, last.y>>
                   /\ p[2] \div 4 < width
                   /\ last.y \div 4 < width) =>
                      /\ <<FlatIndex(width, p[1], p[2]), DotOf(p[1], p[2])>>
                             # <<lastIndex, lastDot>>
                      /\ Read(self, p[1], p[2]) = Read(pre, p[1], p[2])

\* a set that lit a dot in a cell where another pixel was lit, on a canvas
\* with a second cell
C10_Witness ==
    /\ last.op = "set" /\ last.status = "ok"
    /\ width >= 1 /\ last.y \div 4 < width
    /\ Len(chars) >= 2
    /\ chars # pre.chars
    /\ \E p \in Pixels :
          /\ p # <<last.x, last.y>>
          /\ p[2] \div 4 < width
          /\ FlatIndex(width, p[1], p[2]) = lastIndex
          /\ Read(pre, p[1], p[2]) = "true"

=============================================================================
